---- MODULE Spec2Model ----
(***************************************************************************)
(* Model of the top-level event loop of spotify-connect-scrobbler          *)
(* (src/src/main.rs): the `Main` future, its constructor, its              *)
(* `credentials` method, its `poll` loop, and the reactor (`core.run`)     *)
(* that drives it together with the tasks spawned on its handle.           *)
(*                                                                         *)
(* Connect attempts are numbered 1..MaxConnects in the order in which      *)
(* `credentials` starts them; the control session (Spirc, SpircTask) built *)
(* from attempt a carries the same number a.  0 stands for None / the      *)
(* never-resolving `futures::future::empty()` placeholder.                 *)
(***************************************************************************)
EXTENDS Integers, Sequences, FiniteSets, TLC

\* Bounds of the environment: credential bundles the discovery stream
\* yields, and Ctrl-C interrupts the signal stream yields.
MaxCreds == 2
MaxInterrupts == 2

\* One attempt from the command-line credentials plus one per discovered bundle.
MaxConnects == MaxCreds + 1
Ids == 1..MaxConnects

VARIABLES
    pc,               \* position of Main::poll / the reactor
    outcome,          \* "running", "done" (Ok(Ready)), "panicked"
    progress,         \* local `progress` of the poll loop
    pass,             \* polls made so far in the current pass of the loop:
                      \* sequence of [src, ready], src the source polled
    setup,            \* Setup: [credentials: BOOLEAN, enable_discovery: BOOLEAN]
    discovery,        \* Main.discovery: TRUE iff Some(stream)
    discReady,        \* credential bundles the discovery stream has ready
    discEmitted,      \* bundles produced so far by the discovery stream
    connect,          \* Main.connect: 0 = empty(), a = attempt a
    connState,        \* per attempt: "none","inflight","ok","err","used",
                      \* "dropped" (future dropped unresolved or failed),
                      \* "dropped_ok" (future dropped holding a Session)
    nConnects,        \* attempts started (Session::connect calls)
    spirc,            \* Main.spirc: 0 = None, a = handle of session a
    spirc_task,       \* Main.spirc_task: 0 = None, a = task of session a
    taskState,        \* per session task: "none","running","ready","completed"
    spawned,          \* tasks handed to handle.spawn
    shutdownReqs,     \* per session: sequence of shutdown commands received, tagged by sender
    mixerCalls,       \* invocations of (self.mixer)()
    signal,           \* interrupts the signal stream has ready
    sigEmitted,       \* interrupts produced so far
    sigHandled,       \* interrupts taken out of the signal stream by poll
    shutdown          \* Main.shutdown

vars == <<pc, outcome, progress, pass, setup, discovery, discReady, discEmitted, connect,
          connState, nConnects, spirc, spirc_task, taskState, spawned,
          shutdownReqs, mixerCalls, signal, sigEmitted, sigHandled, shutdown>>

\* struct Main right after the struct literal in Main::new.
Init ==
    /\ pc = "new"
    /\ outcome = "running"
    /\ progress = FALSE
    /\ pass = <<>>
    /\ setup \in [credentials : BOOLEAN, enable_discovery : BOOLEAN]
    /\ discovery = FALSE
    /\ discReady = 0
    /\ discEmitted = 0
    /\ connect = 0
    /\ connState = [a \in Ids |-> "none"]
    /\ nConnects = 0
    /\ spirc = 0
    /\ spirc_task = 0
    /\ taskState = [a \in Ids |-> "none"]
    /\ spawned = {}
    /\ shutdownReqs = [a \in Ids |-> <<>>]
    /\ mixerCalls = 0
    /\ signal = 0
    /\ sigEmitted = 0
    /\ sigHandled = 0
    /\ shutdown = FALSE

\* Spirc::shutdown on the handle of session a, called from `from`.
SpircShutdown(reqs, a, from) ==
    IF a = 0 THEN reqs ELSE [reqs EXCEPT ![a] = Append(@, from)]

\* Mutant: the replaced task is dropped instead of spawned.
SpawnTask_Drop(sp, task) ==
    sp

\* `if let Some(task) = task { self.handle.spawn(task); }`
SpawnTask(sp, task) ==
    IF task # 0 THEN sp \cup {task} ELSE sp

\* State of a connect future once it is dropped.
Dropped(st) ==
    IF st = "ok" THEN "dropped_ok" ELSE "dropped"

\* Mutant: `self.spirc = None` is missing.
credentials_KeepHandle ==
    /\ nConnects < MaxConnects
    /\ nConnects' = nConnects + 1
    /\ connect' = nConnects + 1
    /\ connState' = [a \in Ids |->
                       IF a = nConnects + 1 THEN "inflight"
                       ELSE IF a = connect THEN Dropped(connState[a])
                       ELSE connState[a]]
    /\ spirc' = spirc
    /\ spirc_task' = 0
    /\ spawned' = SpawnTask(spawned, spirc_task)

\* Mutant: a pending connect is kept and the new connection is dropped.
credentials_KeepConnect ==
    /\ nConnects < MaxConnects
    /\ nConnects' = nConnects + 1
    /\ connect' = IF connect # 0 THEN connect ELSE nConnects + 1
    /\ connState' = [a \in Ids |->
                       IF a = nConnects + 1
                         THEN (IF connect # 0 THEN "dropped" ELSE "inflight")
                       ELSE connState[a]]
    /\ spirc' = 0
    /\ spirc_task' = 0
    /\ spawned' = SpawnTask(spawned, spirc_task)

\* Main::credentials: start a new connect attempt, replacing (dropping) the
\* previous `connect` future, clear the handle, and spawn the previous task.
credentials ==
    /\ nConnects < MaxConnects
    /\ nConnects' = nConnects + 1
    /\ connect' = nConnects + 1
    /\ connState' = [a \in Ids |->
                       IF a = nConnects + 1 THEN "inflight"
                       ELSE IF a = connect THEN Dropped(connState[a])
                       ELSE connState[a]]
    /\ spirc' = 0
    /\ spirc_task' = 0
    /\ spawned' = SpawnTask(spawned, spirc_task)

\* Rest of Main::new: enable discovery, connect with the configured credentials.
MainNew ==
    /\ pc = "new"
    /\ discovery' = setup.enable_discovery
    /\ IF setup.credentials
         THEN credentials
         ELSE UNCHANGED <<nConnects, connect, connState, spirc, spirc_task, spawned>>
    /\ pc' = "discovery"
    /\ UNCHANGED <<outcome, progress, setup, pass, discReady, discEmitted, taskState,
                   shutdownReqs, mixerCalls, signal, sigEmitted, sigHandled, shutdown>>

\* core.run polls Main again once a source it is parked on is ready.
SourceReady ==
    \/ discovery /\ discReady > 0
    \/ connect # 0 /\ connState[connect] \in {"ok", "err"}
    \/ signal > 0
    \/ spirc_task # 0 /\ taskState[spirc_task] = "ready"

CoreRunMain ==
    /\ pc = "suspended"
    /\ outcome = "running"
    /\ SourceReady
    /\ pc' = "discovery"
    /\ progress' = FALSE
    /\ pass' = <<>>
    /\ UNCHANGED <<outcome, setup, discovery, discReady, discEmitted, connect,
                   connState, nConnects, spirc, spirc_task, taskState, spawned,
                   shutdownReqs, mixerCalls, signal, sigEmitted, sigHandled, shutdown>>

\* core.run drives a spawned task while Main is parked; the reactor stops
\* (and the process ends) as soon as Main resolves or panics.
CoreRunSpawned(a) ==
    /\ pc = "suspended"
    /\ outcome = "running"
    /\ a \in spawned
    /\ taskState[a] = "ready"
    /\ taskState' = [taskState EXCEPT ![a] = "completed"]
    /\ UNCHANGED <<pc, outcome, progress, setup, pass, discovery, discReady, discEmitted,
                   connect, connState, nConnects, spirc, spirc_task, spawned,
                   shutdownReqs, mixerCalls, signal, sigEmitted, sigHandled, shutdown>>

\* Mutant: the task is polled before the signal stream.
NextPc_TaskBeforeSignal(p) ==
    CASE p = "discovery" -> "connect"
      [] p = "connect" -> "task"
      [] p = "task" -> "signal"
      [] p = "signal" -> "check"

\* Order of the four polls in one pass of the loop, then the progress test.
NextPc(p) ==
    CASE p = "discovery" -> "connect"
      [] p = "connect" -> "signal"
      [] p = "signal" -> "task"
      [] p = "task" -> "check"

\* The pass so far, extended by a poll of source src that found it ready or not.
Polled(src, ready) ==
    Append(pass, [src |-> src, ready |-> ready])

\* Mutant: discovered credentials replace the session without a shutdown request.
SwapShutdown_NoRequest(reqs, s) ==
    reqs

\* `if let Some(ref spirc) = self.spirc { spirc.shutdown(); }` before the swap.
SwapShutdown(reqs, s) ==
    SpircShutdown(reqs, s, "discovery")

\* poll, step 1: the discovery stream.
DiscoveryStep ==
    /\ pc = "discovery"
    /\ outcome = "running"
    /\ IF discovery /\ discReady > 0
         THEN /\ discReady' = discReady - 1
              /\ shutdownReqs' = SwapShutdown(shutdownReqs, spirc)
              /\ credentials
              /\ progress' = TRUE
              /\ pass' = Polled("discovery", TRUE)
         ELSE /\ pass' = IF discovery THEN Polled("discovery", FALSE) ELSE pass
              /\ UNCHANGED <<discReady, shutdownReqs, nConnects, connect, connState,
                             spirc, spirc_task, spawned, progress>>
    /\ pc' = NextPc("discovery")
    /\ UNCHANGED <<outcome, setup, discovery, discEmitted, taskState, mixerCalls,
                   signal, sigEmitted, sigHandled, shutdown>>

\* Mutant: a connect error is swallowed and the loop goes on unconnected.
ConnectStep_SwallowError ==
    /\ pc = "connect"
    /\ outcome = "running"
    /\ IF connect # 0 /\ connState[connect] = "ok"
         THEN /\ connState' = [connState EXCEPT ![connect] = "used"]
              /\ connect' = 0
              /\ mixerCalls' = mixerCalls + 1
              /\ spirc' = connect
              /\ spirc_task' = connect
              /\ taskState' = [taskState EXCEPT ![connect] = "running"]
              /\ progress' = TRUE
              /\ pass' = Polled("connect", TRUE)
              /\ pc' = NextPc("connect")
              /\ UNCHANGED outcome
         ELSE IF connect # 0 /\ connState[connect] = "err"
         THEN /\ connState' = [connState EXCEPT ![connect] = "dropped"]
              /\ connect' = 0
              /\ progress' = TRUE
              /\ pass' = Polled("connect", TRUE)
              /\ pc' = NextPc("connect")
              /\ UNCHANGED <<mixerCalls, spirc, spirc_task, taskState, outcome>>
         ELSE /\ pc' = NextPc("connect")
              /\ pass' = Polled("connect", FALSE)
              /\ UNCHANGED <<connState, connect, mixerCalls, spirc, spirc_task,
                             taskState, progress, outcome>>
    /\ UNCHANGED <<setup, discovery, discReady, discEmitted, nConnects, spawned,
                   shutdownReqs, signal, sigEmitted, sigHandled, shutdown>>

\* Mutant: `self.connect` is not reset to the empty future.
ConnectStep_NoReset ==
    /\ pc = "connect"
    /\ outcome = "running"
    /\ IF connect # 0 /\ connState[connect] = "ok"
         THEN /\ connState' = connState
              /\ connect' = connect
              /\ mixerCalls' = mixerCalls + 1
              /\ spirc' = connect
              /\ spirc_task' = connect
              /\ taskState' = [taskState EXCEPT ![connect] = "running"]
              /\ progress' = TRUE
              /\ pass' = Polled("connect", TRUE)
              /\ pc' = NextPc("connect")
              /\ UNCHANGED outcome
         ELSE IF connect # 0 /\ connState[connect] = "err"
         THEN /\ outcome' = "panicked"
              /\ pass' = Polled("connect", TRUE)
              /\ UNCHANGED <<connState, connect, mixerCalls, spirc, spirc_task,
                             taskState, progress, pc>>
         ELSE /\ pc' = NextPc("connect")
              /\ pass' = Polled("connect", FALSE)
              /\ UNCHANGED <<connState, connect, mixerCalls, spirc, spirc_task,
                             taskState, progress, outcome>>
    /\ UNCHANGED <<setup, discovery, discReady, discEmitted, nConnects, spawned,
                   shutdownReqs, signal, sigEmitted, sigHandled, shutdown>>

\* poll, step 2: the pending connect; `.unwrap()` panics on a connect error.
ConnectStep ==
    /\ pc = "connect"
    /\ outcome = "running"
    /\ IF connect # 0 /\ connState[connect] = "ok"
         THEN /\ connState' = [connState EXCEPT ![connect] = "used"]
              /\ connect' = 0
              /\ mixerCalls' = mixerCalls + 1
              /\ spirc' = connect
              /\ spirc_task' = connect
              /\ taskState' = [taskState EXCEPT ![connect] = "running"]
              /\ progress' = TRUE
              /\ pass' = Polled("connect", TRUE)
              /\ pc' = NextPc("connect")
              /\ UNCHANGED outcome
         ELSE IF connect # 0 /\ connState[connect] = "err"
         THEN /\ outcome' = "panicked"
              /\ pass' = Polled("connect", TRUE)
              /\ UNCHANGED <<connState, connect, mixerCalls, spirc, spirc_task,
                             taskState, progress, pc>>
         ELSE /\ pc' = NextPc("connect")
              /\ pass' = Polled("connect", FALSE)
              /\ UNCHANGED <<connState, connect, mixerCalls, spirc, spirc_task,
                             taskState, progress, outcome>>
    /\ UNCHANGED <<setup, discovery, discReady, discEmitted, nConnects, spawned,
                   shutdownReqs, signal, sigEmitted, sigHandled, shutdown>>

\* Mutant: the first interrupt does not reach the handle.
FirstInterrupt_NoRequest(reqs, s) ==
    reqs

\* `if let Some(ref spirc) = self.spirc { spirc.shutdown(); }` of the first interrupt.
FirstInterrupt(reqs, s) ==
    SpircShutdown(reqs, s, "signal")

\* Mutant: the second interrupt waits for a current task.
SignalOutcome_WaitForTask(sd, task) ==
    IF sd /\ task = 0 THEN "done" ELSE "running"

\* Mutant: the first interrupt already ends the lifecycle.
SignalOutcome_DoneOnFirst(sd, task) ==
    "done"

\* Result of the signal branch: "running" = fall through, "done" = return Ready.
SignalOutcome(sd, task) ==
    IF ~sd THEN "running" ELSE "done"

\* poll, step 3: the Ctrl-C stream.
SignalStep ==
    /\ pc = "signal"
    /\ outcome = "running"
    /\ IF signal > 0
         THEN /\ signal' = signal - 1
              /\ sigHandled' = sigHandled + 1
              /\ outcome' = SignalOutcome(shutdown, spirc_task)
              /\ IF ~shutdown
                   THEN /\ shutdownReqs' = FirstInterrupt(shutdownReqs, spirc)
                        /\ shutdown' = TRUE
                   ELSE UNCHANGED <<shutdownReqs, shutdown>>
              /\ IF outcome' = "running"
                   THEN progress' = TRUE /\ pc' = NextPc("signal")
                   ELSE UNCHANGED <<progress, pc>>
              /\ pass' = Polled("signal", TRUE)
         ELSE /\ pc' = NextPc("signal")
              /\ pass' = Polled("signal", FALSE)
              /\ UNCHANGED <<signal, sigHandled, outcome, shutdownReqs, shutdown, progress>>
    /\ UNCHANGED <<setup, discovery, discReady, discEmitted, connect, connState,
                   nConnects, spirc, spirc_task, taskState, spawned, mixerCalls,
                   sigEmitted>>

\* Mutant: a completed task always ends the lifecycle normally.
TaskOutcome_AlwaysDone(sd) ==
    "done"

\* Mutant: the shutdown flag is tested the wrong way round.
TaskOutcome_Inverted(sd) ==
    IF sd THEN "panicked" ELSE "done"

\* Result of a completed current task: return Ready if shutting down, else panic.
TaskOutcome(sd) ==
    IF sd THEN "done" ELSE "panicked"

\* poll, step 4: the current control task.
TaskStep ==
    /\ pc = "task"
    /\ outcome = "running"
    /\ IF spirc_task # 0 /\ taskState[spirc_task] = "ready"
         THEN /\ taskState' = [taskState EXCEPT ![spirc_task] = "completed"]
              /\ outcome' = TaskOutcome(shutdown)
              /\ pass' = Polled("task", TRUE)
              /\ UNCHANGED pc
         ELSE /\ pc' = NextPc("task")
              /\ pass' = IF spirc_task # 0 THEN Polled("task", FALSE) ELSE pass
              /\ UNCHANGED <<taskState, outcome>>
    /\ UNCHANGED <<progress, setup, discovery, discReady, discEmitted, connect,
                   connState, nConnects, spirc, spirc_task, spawned, shutdownReqs,
                   mixerCalls, signal, sigEmitted, sigHandled, shutdown>>

\* Mutant: poll returns NotReady after every pass.
ProgressStep_AlwaysSuspend ==
    /\ pc = "check"
    /\ outcome = "running"
    /\ IF progress
         THEN pc' = "suspended" /\ UNCHANGED <<progress, pass>>
         ELSE pc' = "suspended" /\ UNCHANGED <<progress, pass>>
    /\ UNCHANGED <<outcome, setup, discovery, discReady, discEmitted, connect,
                   connState, nConnects, spirc, spirc_task, taskState, spawned,
                   shutdownReqs, mixerCalls, signal, sigEmitted, sigHandled, shutdown>>

\* poll, end of a pass: loop again after progress, otherwise return NotReady.
ProgressStep ==
    /\ pc = "check"
    /\ outcome = "running"
    /\ IF progress
         THEN pc' = "discovery" /\ progress' = FALSE /\ pass' = <<>>
         ELSE pc' = "suspended" /\ UNCHANGED <<progress, pass>>
    /\ UNCHANGED <<outcome, setup, discovery, discReady, discEmitted, connect,
                   connState, nConnects, spirc, spirc_task, taskState, spawned,
                   shutdownReqs, mixerCalls, signal, sigEmitted, sigHandled, shutdown>>

(***************************************************************************)
(* Environment: the event sources Main polls.                              *)
(***************************************************************************)

\* The discovery stream gets a credential bundle ready.
DiscoveryEmit ==
    /\ outcome = "running"
    /\ discovery
    /\ discEmitted < MaxCreds
    /\ discEmitted' = discEmitted + 1
    /\ discReady' = discReady + 1
    /\ UNCHANGED <<pc, outcome, progress, setup, pass, discovery, connect, connState,
                   nConnects, spirc, spirc_task, taskState, spawned, shutdownReqs,
                   mixerCalls, signal, sigEmitted, sigHandled, shutdown>>

\* The pending Session::connect future gets its result ready.
ConnectResolve(ok) ==
    /\ outcome = "running"
    /\ connect # 0
    /\ connState[connect] = "inflight"
    /\ connState' = [connState EXCEPT ![connect] = IF ok THEN "ok" ELSE "err"]
    /\ UNCHANGED <<pc, outcome, progress, setup, pass, discovery, discReady, discEmitted,
                   connect, nConnects, spirc, spirc_task, taskState, spawned,
                   shutdownReqs, mixerCalls, signal, sigEmitted, sigHandled, shutdown>>

\* The operator presses Ctrl-C.
Interrupt ==
    /\ outcome = "running"
    /\ sigEmitted < MaxInterrupts
    /\ sigEmitted' = sigEmitted + 1
    /\ signal' = signal + 1
    /\ UNCHANGED <<pc, outcome, progress, setup, pass, discovery, discReady, discEmitted,
                   connect, connState, nConnects, spirc, spirc_task, taskState,
                   spawned, shutdownReqs, mixerCalls, sigHandled, shutdown>>

\* A control session ends: its SpircTask will return Ready at its next poll.
TaskFinish(a) ==
    /\ outcome = "running"
    /\ taskState[a] = "running"
    /\ taskState' = [taskState EXCEPT ![a] = "ready"]
    /\ UNCHANGED <<pc, outcome, progress, setup, pass, discovery, discReady, discEmitted,
                   connect, connState, nConnects, spirc, spirc_task, spawned,
                   shutdownReqs, mixerCalls, signal, sigEmitted, sigHandled, shutdown>>

Next ==
    \/ MainNew
    \/ CoreRunMain
    \/ \E a \in Ids : CoreRunSpawned(a)
    \/ DiscoveryStep
    \/ ConnectStep
    \/ SignalStep
    \/ TaskStep
    \/ ProgressStep
    \/ DiscoveryEmit
    \/ \E ok \in BOOLEAN : ConnectResolve(ok)
    \/ Interrupt
    \/ \E a \in Ids : TaskFinish(a)

Spec == Init /\ [][Next]_vars

\* The reactor is single-threaded and runs every ready unit of work: each
\* step of a started pass is taken, a parked Main is polled again when a
\* source is ready, and a ready spawned task is polled while Main is parked.
Fairness ==
    /\ WF_vars(MainNew)
    /\ WF_vars(DiscoveryStep)
    /\ WF_vars(ConnectStep)
    /\ WF_vars(SignalStep)
    /\ WF_vars(TaskStep)
    /\ WF_vars(ProgressStep)
    /\ WF_vars(CoreRunMain)
    /\ \A a \in Ids : SF_vars(CoreRunSpawned(a))

FairSpec == Spec /\ Fairness

TypeOK ==
    /\ pc \in {"new", "discovery", "connect", "signal", "task", "check", "suspended"}
    /\ outcome \in {"running", "done", "panicked"}
    /\ progress \in BOOLEAN
    /\ pass \in Seq([src : {"discovery", "connect", "signal", "task"}, ready : BOOLEAN])
    /\ shutdown \in BOOLEAN
    /\ connect \in 0..MaxConnects
    /\ spirc \in 0..MaxConnects
    /\ spirc_task \in 0..MaxConnects
    /\ spawned \subseteq Ids

(***************************************************************************)
(* Properties.                                                             *)
(***************************************************************************)

\* Session a received the shutdown request of the first interrupt.
SignalAsked(a) ==
    \E i \in 1..Len(shutdownReqs[a]) : shutdownReqs[a][i] = "signal"

\* Session a was created and is no longer the current one.
Superseded(a) ==
    taskState[a] # "none" /\ spirc_task # a

\* C1 (as stated): whenever the first interrupt reached the handle of a
\* session and that session's task has completed, the lifecycle eventually
\* ends normally, whatever discovery or connect events happened in between.
C1_Original ==
    \A a \in Ids :
        (SignalAsked(a) /\ taskState[a] = "completed") ~> (outcome = "done")

\* C1 (amended): when the first interrupt reached the handle of a session and
\* that session's task is ready to complete while it is still the current
\* task, the lifecycle eventually ends normally, unless a credential-swap
\* detaches the task before its completion is observed.
C1_GracefulShutdown ==
    \A a \in Ids :
        (SignalAsked(a) /\ spirc_task = a /\ taskState[a] = "ready")
            ~> (outcome = "done" \/ a \in spawned)

\* C1 witness: a clean end after a single interrupt and the completion of
\* the session that was asked to shut down.
C1_Witness ==
    /\ outcome = "done"
    /\ sigHandled = 1
    /\ \E a \in Ids : SignalAsked(a) /\ spirc_task = a /\ taskState[a] = "completed"

\* C2 (as stated): a task that completed while the shutdown flag is clear
\* has always surfaced as the panic, also when a discovery event was ready.
C2_Original ==
    \A a \in Ids :
        (taskState[a] = "completed" /\ ~shutdown) => outcome = "panicked"

\* C2 (amended): when the task-completion step finds the current task
\* completed while the shutdown flag is clear, the result is the panic.
C2_CurrentCompletionPanics ==
    [][\A a \in Ids :
          (spirc_task = a /\ ~shutdown
             /\ taskState[a] = "ready" /\ taskState'[a] = "completed")
          => outcome' = "panicked"]_vars

\* C2 witness: the current task completed with the flag clear and poll panicked.
C2_Witness ==
    /\ outcome = "panicked"
    /\ ~shutdown
    /\ spirc_task # 0
    /\ taskState[spirc_task] = "completed"

\* C3 (as stated): a task detached by a credential-swap is driven to
\* completion whatever the Orchestrator does, so when the lifecycle has
\* ended every detached task has completed.
C3_Original ==
    outcome # "running" => \A a \in spawned : taskState[a] = "completed"

\* C3 (amended): a task that was current before a credential-swap and is
\* ready to complete is eventually completed by the reactor, unless the
\* lifecycle of Main ends first.
C3_DetachedDriven ==
    \A a \in Ids :
        (Superseded(a) /\ taskState[a] = "ready")
            ~> (taskState[a] = "completed" \/ outcome # "running")

\* C3 witness: a detached task completed while Main is still running.
C3_Witness ==
    /\ outcome = "running"
    /\ \E a \in spawned : taskState[a] = "completed"

\* C4: every control task that was created and has not completed is either
\* the current task or has been spawned on the reactor.
C4_NoSilentDrop ==
    \A a \in Ids :
        taskState[a] \in {"running", "ready"} => (spirc_task = a \/ a \in spawned)

\* C4 witness: an unfinished task was superseded and a newer session is current.
C4_Witness ==
    /\ spirc_task # 0
    /\ \E a \in spawned : a # spirc_task /\ taskState[a] \in {"running", "ready"}

\* C5: only the newest session can be current, a spawned (superseded)
\* session is never the one whose handle is held, and a step delivers
\* shutdown requests to no handle other than the one held before it.
C5_SingleCurrentHandle ==
    [][/\ spirc' \in {0, nConnects'}
       /\ spirc' \notin spawned'
       /\ \A a \in Ids : a # spirc => shutdownReqs'[a] = shutdownReqs[a]]_vars

\* C5 witness: a superseded session that was asked to shut down at the swap,
\* and an interrupt handled afterwards with a newer session current.
C5_Witness ==
    /\ spirc # 0
    /\ SignalAsked(spirc)
    /\ \E a \in spawned : a # spirc /\ shutdownReqs[a] = <<"discovery">>

\* C6: handling an interrupt while the shutdown flag is clear sets the flag,
\* sends exactly one shutdown request to the held handle (none when no
\* handle is held), leaves every other handle alone and does not end poll.
C6_FirstInterrupt ==
    [][(pc = "signal" /\ ~shutdown /\ sigHandled' = sigHandled + 1)
         => /\ shutdown'
            /\ outcome' = "running"
            /\ pc' = "task"
            /\ shutdownReqs' =
                  [a \in Ids |-> IF a = spirc
                                   THEN Append(shutdownReqs[a], "signal")
                                   ELSE shutdownReqs[a]]]_vars

\* C6 witness: the first interrupt was handled with a session current.
C6_Witness ==
    /\ shutdown
    /\ sigHandled = 1
    /\ pc = "task"
    /\ outcome = "running"
    /\ spirc # 0
    /\ shutdownReqs[spirc] = <<"signal">>

\* C7: handling an interrupt while the shutdown flag is set returns Ready at
\* once, whatever the current task and the pending connect are, and neither
\* polls the task nor sends anything to the handle.
C7_SecondInterrupt ==
    [][(pc = "signal" /\ shutdown /\ sigHandled' = sigHandled + 1)
         => /\ outcome' = "done"
            /\ taskState' = taskState
            /\ shutdownReqs' = shutdownReqs
            /\ spirc_task' = spirc_task]_vars

\* C7 witness: forced end while the current task was ready to complete.
C7_Witness ==
    /\ outcome = "done"
    /\ sigHandled = 2
    /\ spirc_task # 0
    /\ taskState[spirc_task] = "ready"

\* Running = 0, ShuttingDown = 1, Terminated = 2.
ShutdownState ==
    IF outcome = "done" THEN 2 ELSE IF shutdown THEN 1 ELSE 0

\* C8: the shutdown state never decreases and advances one stage at a time,
\* the shutdown flag is never cleared, and nothing changes once Terminated.
C8_Monotonic ==
    [][/\ ShutdownState' \in {ShutdownState, ShutdownState + 1}
       /\ (shutdown => shutdown')
       /\ (outcome = "done" => UNCHANGED vars)]_vars

\* C8 witness: Terminated reached after a credential-swap and a session-ready
\* that both happened while ShuttingDown.
C8_Witness ==
    /\ ShutdownState = 2
    /\ \E a \in Ids : SignalAsked(a) /\ a \in spawned
    /\ spirc # 0

\* C9: poll returns Ready only from the signal branch with the flag already
\* set or from the completion of the current task with the flag set; hence a
\* normal end implies the flag is set and an interrupt was handled.
C9_ExitPaths ==
    [][(outcome' = "done" /\ outcome # "done")
         => /\ shutdown' /\ sigHandled' >= 1
            /\ \/ pc = "signal" /\ shutdown /\ sigHandled' = sigHandled + 1
               \/ /\ pc = "task" /\ shutdown /\ spirc_task # 0
                  /\ taskState[spirc_task] = "ready"
                  /\ taskState'[spirc_task] = "completed"]_vars

\* C9 witness: a normal end through the task-completion path.
C9_Witness ==
    /\ outcome = "done"
    /\ pc = "task"
    /\ sigHandled = 1
    /\ sigEmitted = 1

\* Connect futures that exist and have not been consumed.
AliveConnects ==
    {a \in Ids : connState[a] \in {"inflight", "ok", "err"}}

\* C10: at most one connect future is alive and it is the one Main holds;
\* every older attempt was consumed or dropped, and a control session is
\* only ever created from the newest attempt, never from a replaced one.
C10_SingleConnect ==
    [][/\ Cardinality(AliveConnects') <= 1
       /\ AliveConnects' \subseteq {connect'}
       /\ \A a \in Ids :
            /\ (a < nConnects' => connState'[a] \in {"used", "dropped", "dropped_ok"})
            /\ (taskState[a] = "none" /\ taskState'[a] # "none"
                  => a = nConnects /\ connState[a] = "ok")
            /\ (connState[a] \in {"dropped", "dropped_ok"}
                  => connState'[a] = connState[a] /\ taskState'[a] = "none")]_vars

\* C10 witness: an attempt that had resolved was replaced before poll
\* looked at it, and the session in place comes from a later attempt.
C10_Witness ==
    /\ spirc # 0
    /\ \E a \in Ids : a < spirc /\ connState[a] = "dropped_ok" /\ taskState[a] = "none"

\* C11: when the connect step finds the pending connect failed, poll panics
\* in that step, whatever the shutdown flag; it starts no new attempt and
\* builds no session, a failed attempt never has a session, and nothing
\* runs after the panic.
C11_ConnectFailureFatal ==
    [][/\ (pc = "connect" /\ connect # 0 /\ connState[connect] = "err" /\ pass' # pass)
            => /\ outcome' = "panicked"
               /\ nConnects' = nConnects
               /\ connect' = connect
               /\ mixerCalls' = mixerCalls
               /\ spirc' = spirc
               /\ taskState' = taskState
       /\ \A a \in Ids : connState[a] = "err" => taskState'[a] = "none"
       /\ (outcome = "panicked" => UNCHANGED vars)]_vars

\* C11 witness: the panic on a failed connect while shutting down.
C11_Witness ==
    /\ outcome = "panicked"
    /\ shutdown
    /\ pc = "connect"
    /\ connect # 0
    /\ connState[connect] = "err"

\* Position of a source in the order of a pass.
Rank(src) ==
    CASE src = "discovery" -> 1
      [] src = "connect" -> 2
      [] src = "signal" -> 3
      [] src = "task" -> 4

\* Source src was polled in the current pass and had an event ready.
Handled(src) ==
    \E i \in 1..Len(pass) : pass[i].src = src /\ pass[i].ready

\* C12: the polls of a pass are made in the order discovery, connect, signal,
\* task; a session created by the connect step of the pass in which the first
\* interrupt is handled has received that interrupt's shutdown request; and the
\* current task completing in the pass that handled the first interrupt is a
\* clean end.
C12_PassOrder ==
    /\ \A i, j \in 1..Len(pass) : i < j => Rank(pass[i].src) < Rank(pass[j].src)
    /\ (Handled("connect") /\ Handled("signal") /\ sigHandled = 1 /\ outcome # "panicked"
          => spirc # 0 /\ shutdownReqs[spirc] = <<"signal">>)
    /\ (Handled("signal") /\ Handled("task") /\ sigHandled = 1 => outcome = "done")

\* C12 witness: one pass created the session, handled the first interrupt
\* and saw the task complete.
C12_Witness ==
    /\ Handled("connect")
    /\ Handled("signal")
    /\ Handled("task")
    /\ sigHandled = 1
    /\ outcome = "done"

\* Sources a pass has to poll: discovery if enabled, the connect future, the
\* signal stream, and the current task if there is one.
ExpectedSources ==
    (IF discovery THEN {"discovery"} ELSE {})
        \cup {"connect", "signal"}
        \cup (IF spirc_task # 0 THEN {"task"} ELSE {})

\* C13: poll returns NotReady only at the end of a pass without progress in
\* which every source was polled and none was ready; a pass that handled an
\* event is followed by another pass; and a parked Main with a ready source
\* is polled again.
C13_SuspendOnlyWhenIdle ==
    /\ [][/\ (pc' = "suspended" /\ pc # "suspended")
               => /\ ~progress
                  /\ {pass[i].src : i \in 1..Len(pass)} = ExpectedSources
                  /\ \A i \in 1..Len(pass) : ~pass[i].ready
          /\ (pc = "check" /\ pc' # pc /\ (\E i \in 1..Len(pass) : pass[i].ready))
               => pc' = "discovery" /\ pass' = <<>>]_vars
    /\ ((pc = "suspended" /\ SourceReady) ~> (pc # "suspended"))

\* C13 witness: Main parked after a pass that polled all four sources and
\* found none ready, following passes that handled events.
C13_Witness ==
    /\ pc = "suspended"
    /\ Len(pass) = 4
    /\ \A i \in 1..Len(pass) : ~pass[i].ready
    /\ sigHandled = 1
    /\ spawned # {}

\* C14: every mixer invocation goes with exactly one consumed connect attempt
\* and one control session, it leaves `connect` as the empty placeholder, and
\* `connect` only becomes a real attempt again through a new Session::connect;
\* so sessions never outnumber the attempts started.
C14_OnePairPerConnect ==
    [][/\ mixerCalls' = Cardinality({a \in Ids : taskState'[a] # "none"})
       /\ mixerCalls' = Cardinality({a \in Ids : connState'[a] = "used"})
       /\ mixerCalls' <= nConnects'
       /\ (mixerCalls' # mixerCalls
             => /\ mixerCalls' = mixerCalls + 1
                /\ connect # 0 /\ connState[connect] = "ok"
                /\ connect' = 0
                /\ spirc' = connect /\ spirc_task' = connect)
       /\ (connect = 0 /\ connect' # 0 => nConnects' = nConnects + 1)]_vars

\* C14 witness: two sessions built from two of three attempts.
C14_Witness ==
    /\ mixerCalls = 2
    /\ nConnects = 3
    /\ connect = 0

\* C15 (as stated): whenever the shutdown flag is set and a handle is
\* held, that handle has been sent a shutdown request.
C15_Original ==
    (shutdown /\ spirc # 0) => shutdownReqs[spirc] # <<>>

\* C16: while `connect` is a real attempt no session is current, and the
\* session-ready step only ever fills empty handle and task slots.
C16_ConnectExcludesSession ==
    [][/\ (connect' # 0 => spirc' = 0 /\ spirc_task' = 0)
       /\ (spirc_task' # spirc_task /\ spirc_task' # 0 => spirc_task = 0 /\ spirc = 0)
       /\ (spirc' # spirc /\ spirc' # 0 => spirc_task = 0 /\ spirc = 0)]_vars

\* C16 witness: an attempt in flight after a swap that removed a session.
C16_Witness ==
    /\ connect # 0
    /\ connState[connect] = "ok"
    /\ spawned # {}
    /\ spirc = 0
    /\ spirc_task = 0

\* C17: the handle and the task are set together and cleared together: both
\* always name the same session or are both None, and they change only in
\* the session-ready step and in credentials().
C17_HandleIffTask ==
    [][/\ spirc' = spirc_task'
       /\ ((spirc' # spirc \/ spirc_task' # spirc_task)
             => \/ /\ pc = "connect" /\ connect # 0
                   /\ spirc' = connect /\ spirc_task' = connect
                \/ /\ nConnects' = nConnects + 1
                   /\ spirc' = 0 /\ spirc_task' = 0)]_vars

\* C17 witness: a session current after an earlier one was swapped out.
C17_Witness ==
    /\ spirc # 0
    /\ spirc = spirc_task
    /\ spawned # {}
    /\ pc = "suspended"

\* C18: every task spawned by a credential-swap belongs to a session whose
\* handle was sent a shutdown request, the last one by the swap itself.
C18_DetachedWasAsked ==
    \A a \in spawned :
        /\ shutdownReqs[a] # <<>>
        /\ shutdownReqs[a][Len(shutdownReqs[a])] = "discovery"

\* C18 witness: a detached task still running whose session was asked once.
C18_Witness ==
    \E a \in spawned : taskState[a] = "running" /\ shutdownReqs[a] = <<"discovery">>

====
